---------------------------- MODULE Spec2Model ----------------------------
(***************************************************************************)
(* A model of examples/bayesian_linear_regression.py: the LinearModel      *)
(* class with its log_prob method, the toy data generator                  *)
(* build_toy_dataset, and the module-level script that wires them to the   *)
(* inference engine.                                                       *)
(*                                                                         *)
(* Numbers are exact rationals <<numerator, denominator>> in lowest terms  *)
(* with a positive denominator, so that the arithmetic of the formulas is  *)
(* computed and not abstracted.  Rounding of float32/float64 (overflow to  *)
(* infinity, underflow to zero, NaN) is outside the model.                 *)
(* Tensors of rank 1 are sequences, tensors of rank 2 are sequences of     *)
(* rows.  Python's 0-based index k is the model's index k + 1.             *)
(***************************************************************************)
EXTENDS Integers, Sequences, FiniteSets, TLC

VARIABLES
    pc,          \* position of the module-level script ("repl" when the
                 \* definitions are driven by a client instead)
    rng,         \* the global random generator: [seed, draws]
    model,       \* the LinearModel object, None or Some(record of fields)
    variational, \* the Variational object, None or Some(sequence of layers)
    data,        \* the data table, None or Some(n x 2 table)
    raised,      \* "none", or the exception the last call raised
    inference,   \* the MFVI object, None or Some(record)
    t,           \* iterations of inference.run done so far
    last_zs,     \* argument zs of the last log_prob call, None or Some(S x 2)
    last_ret,    \* value the last log_prob call returned, None or Some(vector)
    args,        \* [n_data, noise_std] given to build_toy_dataset
    other,       \* history: after the first log_prob call, one with another zs was made
    first,       \* history: None or Some(<<zs, ret>>) of the first log_prob call
    nbuilds,     \* history: number of build_toy_dataset calls so far
    firstBuild,  \* history: None or Some([pre, data, raised]) of the first build
    varied,      \* history: a later build started from another generator state
    count        \* history: how often each script statement was executed

vars == <<pc, rng, model, variational, data, raised, inference, t, last_zs,
          last_ret,
          args, other, first, nbuilds, firstBuild, varied, count>>

\* A function on 1..n as an explicit sequence (its entries computed once).
Seq_(f) == <<>> \o f

None == <<>>
Some(x) == <<x>>
Get(o) == o[1]

---------------------------------------------------------------------------
(* Bounds of the model.                                                    *)

MaxRows == 2      \* rows of a data table handed to log_prob directly
MaxS == 2         \* rows (samples) of zs
MaxNData == 5     \* n_data handed to build_toy_dataset by a client
MaxDraws == 2     \* draws a client takes from the generator after seeding
MaxBuilds == 3    \* build_toy_dataset calls of a client

---------------------------------------------------------------------------
(* Exact rational arithmetic.                                              *)

Abs(a) == IF a < 0 THEN -a ELSE a

RECURSIVE GCD(_, _)
GCD(a, b) == IF b = 0 THEN a ELSE GCD(b, a % b)

Rat(n, d) ==
    LET g == GCD(Abs(n), Abs(d))
        s == IF d < 0 THEN -1 ELSE 1
    IN  <<(s * n) \div g, (s * d) \div g>>

Whole(n) == <<n, 1>>
Zero == Whole(0)

RNeg(a) == <<-a[1], a[2]>>

RAdd(a, b) ==
    LET l == (a[2] \div GCD(a[2], b[2])) * b[2]
    IN  Rat(a[1] * (l \div a[2]) + b[1] * (l \div b[2]), l)

RSub(a, b) == RAdd(a, RNeg(b))

RMul(a, b) ==
    LET g1 == GCD(Abs(a[1]), b[2])
        g2 == GCD(Abs(b[1]), a[2])
    IN  Rat((a[1] \div g1) * (b[1] \div g2), (a[2] \div g2) * (b[2] \div g1))

RInv(a) == Rat(a[2], a[1])
RDiv(a, b) == RMul(a, RInv(b))

RLeq(a, b) == a[1] * b[2] <= b[1] * a[2]
RLt(a, b) == a[1] * b[2] < b[1] * a[2]

\* The sum of v[lo..hi], split in halves to keep the evaluation shallow
\* (the addition of rationals is exact, hence associative).
RECURSIVE RSumRange(_, _, _)
RSumRange(v, lo, hi) ==
    IF lo > hi THEN Zero
    ELSE IF lo = hi THEN v[lo]
    ELSE LET mid == (lo + hi) \div 2
         IN  RAdd(RSumRange(v, lo, mid), RSumRange(v, mid + 1, hi))

\* The sum of the entries of a sequence.
RSum(v) == RSumRange(v, 1, Len(v))

---------------------------------------------------------------------------
(* The tensor operations log_prob uses.                                    *)

\* xs[:, j]: column j (0-based) of a table.
column(xs, j) == Seq_([i \in 1..Len(xs) |-> xs[i][j + 1]])

\* tf.expand_dims(v, 1): a vector of length n becomes an n x 1 matrix.
expand_dims_1(v) == Seq_([i \in 1..Len(v) |-> <<v[i]>>])

\* tf.expand_dims(v, 0): a vector of length S becomes a 1 x S matrix.
expand_dims_0(v) == <<v>>

\* tf.matmul(A, B) of an n x k and a k x m matrix.
matmul(A, B) ==
    Seq_([i \in 1..Len(A) |->
        Seq_([j \in 1..Len(B[1]) |->
            RSum(Seq_([k \in 1..Len(B) |-> RMul(A[i][k], B[k][j])]))])])

\* Broadcasting: a dimension of size 1 is stretched to the other operand's.
Stretch(k, len) == IF len = 1 THEN 1 ELSE k
Max(a, b) == IF a >= b THEN a ELSE b

\* A + B and A - B and A * B of two rank-2 tensors, elementwise with
\* broadcasting.
broadcast_add(A, B) ==
    Seq_([i \in 1..Max(Len(A), Len(B)) |->
        Seq_([j \in 1..Max(Len(A[1]), Len(B[1])) |->
            RAdd(A[Stretch(i, Len(A))][Stretch(j, Len(A[1]))],
                 B[Stretch(i, Len(B))][Stretch(j, Len(B[1]))])])])

broadcast_sub(A, B) ==
    Seq_([i \in 1..Max(Len(A), Len(B)) |->
        Seq_([j \in 1..Max(Len(A[1]), Len(B[1])) |->
            RSub(A[Stretch(i, Len(A))][Stretch(j, Len(A[1]))],
                 B[Stretch(i, Len(B))][Stretch(j, Len(B[1]))])])])

broadcast_mul(A, B) ==
    Seq_([i \in 1..Max(Len(A), Len(B)) |->
        Seq_([j \in 1..Max(Len(A[1]), Len(B[1])) |->
            RMul(A[Stretch(i, Len(A))][Stretch(j, Len(A[1]))],
                 B[Stretch(i, Len(B))][Stretch(j, Len(B[1]))])])])

\* A rank-1 operand of a rank-2 operation is first given a leading
\* dimension of size 1 (it is laid out along the last axis).
as_row(v) == <<v>>

\* v + w of two rank-1 tensors, with broadcasting.
vector_add(v, w) == broadcast_add(as_row(v), as_row(w))[1]

\* tf.pow(M, 2), elementwise.
pow_2(M) ==
    Seq_([i \in 1..Len(M) |-> Seq_([j \in 1..Len(M[1]) |-> RMul(M[i][j], M[i][j])])])

\* tf.reduce_sum(M, 0): the sum over the rows, one entry per column.
reduce_sum_0(M) ==
    Seq_([j \in 1..Len(M[1]) |-> RSum(Seq_([i \in 1..Len(M) |-> M[i][j]]))])

\* tf.reduce_sum(M, 1): the sum over the columns, one entry per row.
reduce_sum_1(M) == Seq_([i \in 1..Len(M) |-> RSum(M[i])])

\* scalar * vector, vector / scalar, -vector.
scalar_mul(c, v) == Seq_([i \in 1..Len(v) |-> RMul(c, v[i])])
div_scalar(v, c) == Seq_([i \in 1..Len(v) |-> RDiv(v[i], c)])
negate(v) == Seq_([i \in 1..Len(v) |-> RNeg(v[i])])

---------------------------------------------------------------------------
(* class LinearModel.                                                      *)

\* LinearModel.__init__(lik_variance, prior_variance).
LinearModel(lik_variance, prior_variance) ==
    [lik_variance |-> lik_variance,
     prior_variance |-> prior_variance,
     num_vars |-> 2]

\* The defaults of __init__: lik_variance = 0.01, prior_variance = 0.01.
DefaultVariance == <<1, 100>>

\* y = xs[:, 0]: the output is read from the first column.
y_of(xs) == column(xs, 0)

\* The input read from the first column, where the output is.
x_of_first_column(xs) == column(xs, 0)

\* x = xs[:, 1]: the input is read from the second column.
x_of(xs) == column(xs, 1)

\* log_prior with the sum taken over axis 0, the samples, instead of axis 1.
log_prior_axis_0(self, zs) ==
    scalar_mul(RNeg(self.prior_variance), reduce_sum_0(broadcast_mul(zs, zs)))

\* log_prior = -self.prior_variance * tf.reduce_sum(zs*zs, 1)
log_prior(self, zs) ==
    scalar_mul(RNeg(self.prior_variance), reduce_sum_1(broadcast_mul(zs, zs)))

\* mus with the two components of a sample exchanged: W = zs[:, 1], b = zs[:, 0].
mus_exchanged(xs, zs) ==
    LET x == expand_dims_1(x_of(xs))
        W == expand_dims_0(column(zs, 1))
        b == column(zs, 0)
    IN  broadcast_add(matmul(x, W), as_row(b))

\* x = tf.expand_dims(x, 1); W = tf.expand_dims(zs[:, 0], 0); b = zs[:, 1]
\* mus = tf.matmul(x, W) + b
mus(xs, zs) ==
    LET x == expand_dims_1(x_of(xs))
        W == expand_dims_0(column(zs, 0))
        b == column(zs, 1)
    IN  broadcast_add(matmul(x, W), as_row(b))

\* y = tf.expand_dims(y, 1); mus - y
residuals(xs, zs) == broadcast_sub(mus(xs, zs), expand_dims_1(y_of(xs)))

\* log_lik without the leading minus sign.
log_lik_unnegated(self, xs, zs) ==
    div_scalar(reduce_sum_0(pow_2(residuals(xs, zs))), self.lik_variance)

\* log_lik = -tf.reduce_sum(tf.pow(mus - y, 2), 0) / self.lik_variance
log_lik(self, xs, zs) ==
    div_scalar(negate(reduce_sum_0(pow_2(residuals(xs, zs)))), self.lik_variance)

\* return log_lik + log_prior
log_prob(self, xs, zs) == vector_add(log_lik(self, xs, zs), log_prior(self, zs))

---------------------------------------------------------------------------
(* A client calling log_prob: the inputs.                                  *)

SeqsUpTo(S, n) == UNION {[1..k -> S] : k \in 1..n}

\* lik_variance and prior_variance a client may construct the model with.
Variances == {DefaultVariance, Whole(2), Whole(-1)}

\* The models of a client: one of the two variances is the default.
Models ==
    {LinearModel(l, p) : l \in {DefaultVariance}, p \in Variances}
        \cup {LinearModel(l, p) : l \in Variances, p \in {DefaultVariance}}

\* Rows (output y, input x) of a data table.
Points == {<<Zero, Whole(1)>>, <<<<1, 2>>, Whole(-1)>>}
Tables == SeqsUpTo(Points, MaxRows)

\* Rows (zs[s,0], zs[s,1]) of a matrix of weight samples.
Weights == {<<Zero, Zero>>, <<Whole(-1), Whole(2)>>}
ZsInputs == SeqsUpTo(Weights, MaxS)

\* The arguments build_toy_dataset has by default: n_data = 40,
\* noise_std = 0.1.
DefaultNData == 40
DefaultNoiseStd == <<1, 10>>

Statements == {"set_seed", "model", "variational", "add", "data", "inference", "run"}

\* A log_prob that negates self.prior_variance in place instead of using
\* the negated value.
log_prob_call_in_place(z) ==
    /\ model # None
    /\ data # None
    /\ other' = (other \/ (first # None /\ z # Get(first)[1]))
    /\ last_zs' = Some(z)
    /\ model' = Some([Get(model) EXCEPT !.prior_variance = RNeg(@)])
    /\ last_ret' = Some(vector_add(log_lik(Get(model), Get(data), z),
                                   scalar_mul(Get(model').prior_variance,
                                         reduce_sum_1(broadcast_mul(z, z)))))
    /\ first' = IF first = None THEN Some(<<z, Get(last_ret')>>) ELSE first
    /\ UNCHANGED <<pc, rng, variational, data, raised, inference, t,
                   args, nbuilds, firstBuild, varied, count>>

\* model.log_prob(data, z) called by a client (or by the inference engine)
\* that keeps the result.
log_prob_call(z) ==
    /\ model # None
    /\ data # None
    /\ other' = (other \/ (first # None /\ z # Get(first)[1]))
    /\ last_zs' = Some(z)
    /\ last_ret' = Some(log_prob(Get(model), Get(data), z))
    /\ first' = IF first = None
                THEN Some(<<z, log_prob(Get(model), Get(data), z)>>)
                ELSE first
    /\ UNCHANGED <<pc, rng, model, variational, data, raised, inference, t,
                   args, nbuilds, firstBuild, varied, count>>

---------------------------------------------------------------------------
(* The random generator behind ed.set_seed and edward.stats.norm.rvs.      *)

\* Seeds a generator state can have (42 is the script's, 0 is
\* build_toy_dataset's).
Seeds == {0, 1, 42}

\* ed.set_seed(x): the global generator restarts from seed x.
set_seed(x) == [seed |-> x, draws |-> 0]

\* The k-th standard normal draw (k = 0, 1, ...) of a generator seeded with
\* seed: a fixed pseudo-random stream per seed, in whole units.
StdNormal(seed, k) == ((((seed % 5) + 2) * (k + 1) + k) % 5) - 2

\* norm.rvs(loc, scale, size=size) drawn from generator state g: the
\* samples and the generator state after the draw.
rvs(loc, scale, size, g) ==
    [samples |-> Seq_([k \in 1..size |->
                    RAdd(loc, RMul(scale, Whole(StdNormal(g.seed, g.draws + k - 1))))]),
     rng |-> [seed |-> g.seed, draws |-> g.draws + size]]

---------------------------------------------------------------------------
(* build_toy_dataset and the numpy operations it uses.                     *)

\* np.linspace(start, stop, num=num): num evenly spaced points, both ends
\* included.
linspace(start, stop, num) ==
    IF num = 0 THEN <<>>
    ELSE IF num = 1 THEN <<Whole(start)>>
    ELSE Seq_([k \in 1..num |->
                Rat(start * (num - 1) + (k - 1) * (stop - start), num - 1)])

\* n_data/2 on an int: integer division.
half_of(n_data) == n_data \div 2

\* np.concatenate([a, b]) of two rank-1 arrays.
concatenate(a, b) == a \o b

\* Shapes (m,) and (n,) can be broadcast together.
np_broadcastable(m, n) == m = n \/ m = 1 \/ n = 1

\* a + b of two rank-1 arrays whose shapes can be broadcast together.
np_add(a, b) ==
    LET len == IF Len(a) = 1 THEN Len(b) ELSE Len(a)
    IN  Seq_([i \in 1..len |->
                RAdd(a[Stretch(i, Len(a))], b[Stretch(i, Len(b))])])

\* (x - 4.0) / 4.0, elementwise.
rescale(x) == Seq_([i \in 1..Len(x) |-> RDiv(RSub(x[i], Whole(4)), Whole(4))])

\* np.concatenate((y, x), axis=1) of two n x 1 arrays.
concatenate_axis_1(y, x) == Seq_([i \in 1..Len(y) |-> y[i] \o x[i]])

\* The slope 0.075 of the toy data.
ToySlope == <<3, 40>>

\* build_toy_dataset without its ed.set_seed(0): the noise is drawn from
\* the generator as the caller left it.
build_toy_dataset_unseeded(n_data, noise_std, g) ==
    LET x1 == concatenate(linspace(0, 2, half_of(n_data)),
                          linspace(6, 8, half_of(n_data)))
        noise == rvs(Zero, noise_std, n_data, g)
        failed == [rng |-> noise.rng, raised |-> "ValueError", data |-> None]
    IN  IF ~np_broadcastable(Len(x1), n_data) THEN failed
        ELSE LET y1 == np_add(scalar_mul(ToySlope, x1), noise.samples)
                 x2 == rescale(x1)
             IN  IF Len(x2) # n_data \/ Len(y1) # n_data THEN failed
                 ELSE [rng |-> noise.rng, raised |-> "none",
                       data |-> Some(concatenate_axis_1(expand_dims_1(y1),
                                                        expand_dims_1(x2)))]

\* build_toy_dataset(n_data, noise_std) called with the global generator in
\* state g: the generator state it leaves, the exception it raises
\* ("none" when it returns) and the table it returns.
\*   ed.set_seed(0)
\*   x = np.concatenate([np.linspace(0, 2, num=n_data/2),
\*                       np.linspace(6, 8, num=n_data/2)])
\*   y = 0.075*x + norm.rvs(0, noise_std, size=n_data)   (ValueError when the
\*                                  shapes cannot be broadcast together)
\*   x = (x - 4.0) / 4.0
\*   x = x.reshape((n_data, 1)); y = y.reshape((n_data, 1))   (ValueError
\*                                  when the size is not n_data)
\*   data = np.concatenate((y, x), axis=1)
\* tf.constant(data, dtype=tf.float32) and ed.Data(data) wrap the table; the
\* rounding to float32 is outside the exact arithmetic of the model.
build_toy_dataset(n_data, noise_std, g) ==
    LET g0 == set_seed(0)
        x1 == concatenate(linspace(0, 2, half_of(n_data)),
                          linspace(6, 8, half_of(n_data)))
        noise == rvs(Zero, noise_std, n_data, g0)
        failed == [rng |-> noise.rng, raised |-> "ValueError", data |-> None]
    IN  IF ~np_broadcastable(Len(x1), n_data) THEN failed
        ELSE LET y1 == np_add(scalar_mul(ToySlope, x1), noise.samples)
                 x2 == rescale(x1)
             IN  IF Len(x2) # n_data \/ Len(y1) # n_data THEN failed
                 ELSE [rng |-> noise.rng, raised |-> "none",
                       data |-> Some(concatenate_axis_1(expand_dims_1(y1),
                                                        expand_dims_1(x2)))]

---------------------------------------------------------------------------
(* A client calling build_toy_dataset, ed.set_seed and norm.rvs.           *)

NoiseStds == {DefaultNoiseStd, <<1, 2>>}

\* The matrices zs, of one sample each, the client evaluates on the built data.
DataZs == {<<w>> : w \in Weights}

\* ed.set_seed(s) called by the client.
set_seed_call(s) ==
    /\ rng' = set_seed(s)
    /\ UNCHANGED <<pc, model, variational, data, raised, inference, t, last_zs,
                   last_ret, args, other, first, nbuilds, firstBuild, varied,
                   count>>

\* The client draws one sample itself, which advances the generator.
draw_call ==
    /\ rng.draws < MaxDraws
    /\ rng' = rvs(Zero, Whole(1), 1, rng).rng
    /\ UNCHANGED <<pc, model, variational, data, raised, inference, t, last_zs,
                   last_ret, args, other, first, nbuilds, firstBuild, varied,
                   count>>

\* data = build_toy_dataset(n_data, noise_std) called by the client; when
\* the call raises, the assignment does not happen.
build_call ==
    /\ nbuilds < MaxBuilds
    /\ LET r == build_toy_dataset(args.n_data, args.noise_std, rng)
       IN  /\ rng' = r.rng
           /\ raised' = r.raised
           /\ data' = IF r.raised = "none" THEN r.data ELSE data
           /\ firstBuild' = IF firstBuild = None
                            THEN Some([pre |-> rng, data |-> r.data,
                                       raised |-> r.raised])
                            ELSE firstBuild
           /\ varied' = (varied \/ (firstBuild # None /\ Get(firstBuild).pre # rng))
    /\ nbuilds' = nbuilds + 1
    /\ UNCHANGED <<pc, model, variational, inference, t, last_zs, last_ret,
                   args, other, first, count>>

InitData ==
    /\ pc = "repl"
    /\ rng \in [seed : Seeds, draws : {0}]
    /\ model = Some(LinearModel(DefaultVariance, DefaultVariance))
    /\ variational = None
    /\ data = None
    /\ raised = "none"
    /\ inference = None
    /\ t = 0
    /\ last_zs = None
    /\ last_ret = None
    /\ args \in [n_data : 1..MaxNData, noise_std : NoiseStds]
    /\ other = FALSE
    /\ first = None
    /\ nbuilds = 0
    /\ firstBuild = None
    /\ varied = FALSE
    /\ count = [s \in Statements |-> 0]

NextData ==
    \/ \E s \in Seeds : set_seed_call(s)
    \/ draw_call
    \/ build_call
    \/ \E z \in DataZs : log_prob_call(z)

DataSpec == InitData /\ [][NextData]_vars

InitLogProb ==
    /\ pc = "repl"
    /\ rng = [seed |-> 0, draws |-> 0]
    /\ model \in {Some(m) : m \in Models}
    /\ variational = None
    /\ data \in {Some(x) : x \in Tables}
    /\ raised = "none"
    /\ inference = None
    /\ t = 0
    /\ last_zs = None
    /\ last_ret = None
    /\ args = [n_data |-> DefaultNData, noise_std |-> DefaultNoiseStd]
    /\ other = FALSE
    /\ first = None
    /\ nbuilds = 0
    /\ firstBuild = None
    /\ varied = FALSE
    /\ count = [s \in Statements |-> 0]

NextLogProb == \E z \in ZsInputs : log_prob_call(z)

Spec == InitLogProb /\ [][NextLogProb]_vars

---------------------------------------------------------------------------
(* The module-level script, lines 71 to 78.                                *)

\* ed.set_seed(42)
ScriptSeed == 42

\* inference.run(n_iter=250, n_minibatch=5, n_print=10)
n_iter == 250
n_minibatch == 5

\* The order of the script's statements with the data built first, before
\* the model and the variational family.
next_stmt_data_first(l) ==
    CASE l = "l71" -> "l75"
      [] l = "l75" -> "l72"
      [] l = "l72" -> "l73"
      [] l = "l73" -> "l74"
      [] l = "l74" -> "l77"
      [] l = "l77" -> "l78"
      [] l = "l78" -> "done"

\* The statement executed after the one at line l.
next_stmt(l) ==
    CASE l = "l71" -> "l72"
      [] l = "l72" -> "l73"
      [] l = "l73" -> "l74"
      [] l = "l74" -> "l75"
      [] l = "l75" -> "l77"
      [] l = "l77" -> "l78"
      [] l = "l78" -> "done"

Executed(s) == [count EXCEPT ![s] = @ + 1]

\* line 71: ed.set_seed(42)
stmt_set_seed ==
    /\ pc = "l71"
    /\ rng' = set_seed(ScriptSeed)
    /\ count' = Executed("set_seed")
    /\ pc' = next_stmt(pc)
    /\ UNCHANGED <<model, variational, data, raised, inference, t, last_zs,
                   last_ret, args, other, first, nbuilds, firstBuild, varied>>

\* line 72: model = LinearModel()
stmt_model ==
    /\ pc = "l72"
    /\ model' = Some(LinearModel(DefaultVariance, DefaultVariance))
    /\ count' = Executed("model")
    /\ pc' = next_stmt(pc)
    /\ UNCHANGED <<rng, variational, data, raised, inference, t, last_zs,
                   last_ret, args, other, first, nbuilds, firstBuild, varied>>

\* line 73: variational = Variational()
stmt_variational ==
    /\ pc = "l73"
    /\ variational' = Some(<<>>)
    /\ count' = Executed("variational")
    /\ pc' = next_stmt(pc)
    /\ UNCHANGED <<rng, model, data, raised, inference, t, last_zs,
                   last_ret, args, other, first, nbuilds, firstBuild, varied>>

\* line 74: variational.add(Normal(model.num_vars))
stmt_add ==
    /\ pc = "l74"
    /\ model # None
    /\ variational # None
    /\ variational' = Some(Append(Get(variational), Get(model).num_vars))
    /\ count' = Executed("add")
    /\ pc' = next_stmt(pc)
    /\ UNCHANGED <<rng, model, data, raised, inference, t, last_zs,
                   last_ret, args, other, first, nbuilds, firstBuild, varied>>

\* line 75: data = build_toy_dataset(); an exception ends the script.
stmt_data ==
    /\ pc = "l75"
    /\ LET r == build_toy_dataset(args.n_data, args.noise_std, rng)
       IN  /\ rng' = r.rng
           /\ raised' = r.raised
           /\ data' = IF r.raised = "none" THEN r.data ELSE data
           /\ pc' = IF r.raised = "none" THEN next_stmt(pc) ELSE "error"
    /\ count' = Executed("data")
    /\ UNCHANGED <<model, variational, inference, t, last_zs, last_ret, args,
                   other, first, nbuilds, firstBuild, varied>>

\* line 77: inference = ed.MFVI(model, variational, data)
stmt_inference ==
    /\ pc = "l77"
    /\ model # None
    /\ variational # None
    /\ data # None
    /\ inference' = Some([model |-> Get(model),
                          variational |-> Get(variational),
                          data |-> Get(data)])
    /\ count' = Executed("inference")
    /\ pc' = next_stmt(pc)
    /\ UNCHANGED <<rng, model, variational, data, raised, t, last_zs,
                   last_ret, args, other, first, nbuilds, firstBuild, varied>>

\* line 78: inference.run(...) is entered.
stmt_run ==
    /\ pc = "l78"
    /\ inference # None
    /\ count' = Executed("run")
    /\ pc' = "running"
    /\ UNCHANGED <<rng, model, variational, data, raised, inference, t,
                   last_zs, last_ret, args, other, first, nbuilds, firstBuild,
                   varied>>

\* The samples of one iteration: n_minibatch rows of num_vars weights.
MinibatchSamples == {[s \in 1..n_minibatch |-> w] : w \in Weights}

\* One iteration of the run loop: the engine draws n_minibatch samples of
\* the weights and evaluates model.log_prob on the data and the samples.
run_iter ==
    /\ pc = "running"
    /\ t < n_iter
    /\ t' = t + 1
    /\ \E z \in MinibatchSamples :
          /\ last_zs' = Some(z)
          /\ last_ret' = Some(log_prob(Get(inference).model, Get(inference).data, z))
    /\ rng' = [rng EXCEPT !.draws = @ + n_minibatch * Get(inference).model.num_vars]
    /\ UNCHANGED <<pc, model, variational, data, raised, inference, args,
                   other, first, nbuilds, firstBuild, varied, count>>

\* inference.run returns after n_iter iterations.
run_return ==
    /\ pc = "running"
    /\ t = n_iter
    /\ pc' = next_stmt("l78")
    /\ UNCHANGED <<rng, model, variational, data, raised, inference, t,
                   last_zs, last_ret, args, other, first, nbuilds, firstBuild,
                   varied, count>>

\* The interpreter starts the script with nothing defined; the generator is
\* in whatever state it was created in.
InitScript ==
    /\ pc = "l71"
    /\ rng \in [seed : Seeds, draws : {0}]
    /\ model = None
    /\ variational = None
    /\ data = None
    /\ raised = "none"
    /\ inference = None
    /\ t = 0
    /\ last_zs = None
    /\ last_ret = None
    /\ args = [n_data |-> DefaultNData, noise_std |-> DefaultNoiseStd]
    /\ other = FALSE
    /\ first = None
    /\ nbuilds = 0
    /\ firstBuild = None
    /\ varied = FALSE
    /\ count = [s \in Statements |-> 0]

NextScript ==
    \/ stmt_set_seed
    \/ stmt_model
    \/ stmt_variational
    \/ stmt_add
    \/ stmt_data
    \/ stmt_inference
    \/ stmt_run
    \/ run_iter
    \/ run_return

ScriptSpec == InitScript /\ [][NextScript]_vars

---------------------------------------------------------------------------
(* Properties.                                                             *)

TheModel == Get(model)
TheData == Get(data)
TheZs == Get(last_zs)
TheRet == Get(last_ret)

Positive(a) == RLt(Zero, a)
Square(a) == RMul(a, a)
Two == Whole(2)

Reverse(v) == Seq_([i \in 1..Len(v) |-> v[Len(v) + 1 - i]])
Without(v, s) == SubSeq(v, 1, s - 1) \o SubSeq(v, s + 1, Len(v))

\* The mean predicted for data row i by the sample z = (slope, intercept).
PredictedMean(xs, i, z) == RAdd(RMul(xs[i][2], z[1]), z[2])

\* sum_i (y_i - (x_i*z[0] + z[1]))^2
SumSquaredResiduals(xs, z) ==
    RSum(Seq_([i \in 1..Len(xs) |-> Square(RSub(xs[i][1], PredictedMean(xs, i, z)))]))

\* sum_j z[j]^2
SumSquaredWeights(z) == RSum(Seq_([j \in 1..Len(z) |-> Square(z[j])]))

\* The part of log N(y | x*z[0] + z[1], lik_variance) + log N(z | 0,
\* prior_variance) that depends on z.
GaussianZPart(self, xs, z) ==
    RSub(RNeg(RDiv(SumSquaredResiduals(xs, z), RMul(Two, self.lik_variance))),
         RDiv(SumSquaredWeights(z), RMul(Two, self.prior_variance)))

\* C1: every entry of log_prob(xs, zs) is the Gaussian log-likelihood plus
\* the Gaussian log-prior with lik_variance and prior_variance as the
\* variances: up to the terms that do not depend on z, entry s is
\* -sum_i (y_i - (x_i*zs[s,0] + zs[s,1]))^2 / (2*lik_variance)
\* - sum_j zs[s,j]^2 / (2*prior_variance).  Two entries of one call differ
\* by exactly the difference of these parts.
C1_ClosedFormGaussian ==
    (last_ret # None /\ Positive(TheModel.lik_variance)
                     /\ Positive(TheModel.prior_variance)) =>
        \A s, u \in 1..Len(TheZs) :
            RSub(TheRet[s], TheRet[u])
                = RSub(GaussianZPart(TheModel, TheData, TheZs[s]),
                       GaussianZPart(TheModel, TheData, TheZs[u]))

\* C2: log_prob(xs, zs) has one entry per row of zs, and entry s is what
\* log_prob returns for the single row zs[s,:] alone: reversing the rows
\* reverses the result and removing a row removes its entry.
C2_EntryDependsOnOwnRow ==
    last_ret # None =>
        /\ Len(TheRet) = Len(TheZs)
        /\ \A s \in 1..Len(TheZs) :
              TheRet[s] = log_prob(TheModel, TheData, <<TheZs[s]>>)[1]
        /\ log_prob(TheModel, TheData, Reverse(TheZs)) = Reverse(TheRet)
        /\ \A s \in 1..Len(TheZs) :
              Len(TheZs) > 1 =>
                  log_prob(TheModel, TheData, Without(TheZs, s)) = Without(TheRet, s)

C2_Witness ==
    /\ last_ret # None
    /\ Len(TheZs) >= 2
    /\ Len(TheData) >= 2
    /\ TheZs[1] # TheZs[2]
    /\ TheRet[1] # TheRet[2]

\* C5: a sample is (slope, intercept): the mean log_prob predicts for row i
\* and sample s is x_i*zs[s,0] + zs[s,1], the prior term is
\* -prior_variance times the sum of the squares of these num_vars = 2
\* components, and the returned entry is built from exactly these.
C5_SlopeAndIntercept ==
    last_ret # None =>
        /\ TheModel.num_vars = 2
        /\ \A s \in 1..Len(TheZs) : Len(TheZs[s]) = TheModel.num_vars
        /\ \A i \in 1..Len(TheData), s \in 1..Len(TheZs) :
              mus(TheData, TheZs)[i][s] = PredictedMean(TheData, i, TheZs[s])
        /\ \A s \in 1..Len(TheZs) :
              log_prior(TheModel, TheZs)[s]
                  = RNeg(RMul(TheModel.prior_variance,
                              RAdd(Square(TheZs[s][1]), Square(TheZs[s][2]))))
        /\ \A s \in 1..Len(TheZs) :
              TheRet[s]
                  = RSub(RDiv(RNeg(SumSquaredResiduals(TheData, TheZs[s])),
                              TheModel.lik_variance),
                         RMul(TheModel.prior_variance,
                              RAdd(Square(TheZs[s][1]), Square(TheZs[s][2]))))

C5_Witness ==
    /\ last_ret # None
    /\ \E s \in 1..Len(TheZs), i \in 1..Len(TheData) :
          /\ TheZs[s][1] # TheZs[s][2]
          /\ TheData[i][2] # Whole(1)
          /\ mus(TheData, TheZs)[i][s] = Whole(3)

\* C7: a log_prob call leaves the model's fields and the data unchanged,
\* and a call with the zs of the first call returns what the first call
\* returned, whatever was called in between.
C7_LogProbStateless ==
    [][ /\ model' = model
        /\ data' = data
        /\ (first # None /\ last_zs' = Some(Get(first)[1]))
              => last_ret' = Some(Get(first)[2]) ]_vars

C7_Witness ==
    /\ other
    /\ first # None
    /\ last_zs = Some(Get(first)[1])
    /\ last_ret = Some(Get(first)[2])
    /\ Len(TheZs) >= 2

C3_BuildsForEveryNData ==
    nbuilds > 0 =>
        /\ raised = "none"
        /\ data # None
        /\ Len(TheData) = args.n_data
        /\ \A i \in 1..Len(TheData) : Len(TheData[i]) = 2

\* C4: in every row of the built table column 0 is the output of the
\* example whose rescaled input is in column 1 (y = 0.075*x + noise with
\* x = 4*column 1 + 4, and column 1 lies in [-1, 1]), and the residual
\* log_prob squares for row i is the prediction from column 1 of row i
\* minus column 0 of row i.
C4_ColumnLayoutAgrees ==
    data # None =>
        /\ \A i \in 1..Len(TheData) :
              /\ TheData[i][1]
                    = RAdd(RMul(ToySlope,
                                RAdd(RMul(Whole(4), TheData[i][2]), Whole(4))),
                           RMul(args.noise_std, Whole(StdNormal(0, i - 1))))
              /\ RLeq(Whole(-1), TheData[i][2])
              /\ RLeq(TheData[i][2], Whole(1))
        /\ last_zs # None =>
              \A i \in 1..Len(TheData), s \in 1..Len(TheZs) :
                  residuals(TheData, TheZs)[i][s]
                      = RSub(PredictedMean(TheData, i, TheZs[s]), TheData[i][1])

C4_Witness ==
    /\ data # None
    /\ last_zs # None
    /\ Len(TheData) >= 4
    /\ TheZs[1][1] # Zero
    /\ \E i \in 1..Len(TheData) : TheData[i][1] # TheData[i][2]

\* C9: two build_toy_dataset calls with the same n_data and noise_std end
\* the same way and return the same table, whatever the generator's state
\* before each call and whatever ran in between.
C9_BuildDeterministic ==
    firstBuild # None =>
        /\ raised = Get(firstBuild).raised
        /\ raised = "none" => data = Get(firstBuild).data

C9_Witness ==
    /\ nbuilds >= 2
    /\ varied
    /\ raised = "none"
    /\ data # None
    /\ \E i \in 1..Len(TheData) : TheData[i][1] # RMul(ToySlope, RAdd(RMul(Whole(4), TheData[i][2]), Whole(4)))

\* C6 as stated: the data is constructed first, then the model, then the
\* variational family, then the inference loop runs, each exactly once.
C6_DataConstructedFirst ==
    /\ \A s \in Statements : count[s] <= 1
    /\ model # None => data # None
    /\ variational # None => model # None
    /\ inference # None => variational # None
    /\ pc \in {"running", "done"} => inference # None

\* C6, amended: the model is instantiated first, then the variational
\* family (and its layer added), then the data is constructed, then the
\* inference object, and only then the loop runs; each step happens
\* exactly once and none precedes an earlier one in this order.
C6_ModelVariationalDataRun ==
    /\ \A s \in Statements : count[s] <= 1
    /\ (count["model"] = 1) = (model # None)
    /\ (count["variational"] = 1) = (variational # None)
    /\ (count["data"] = 1) = (data # None)
    /\ (count["inference"] = 1) = (inference # None)
    /\ count["model"] <= count["set_seed"]
    /\ count["variational"] <= count["model"]
    /\ count["add"] <= count["variational"]
    /\ count["data"] <= count["add"]
    /\ count["inference"] <= count["data"]
    /\ count["run"] <= count["inference"]
    /\ data # None => Get(variational) = <<TheModel.num_vars>>
    /\ (t > 0 \/ pc \in {"running", "done"}) => count["run"] = 1
    /\ pc = "done" => (t = n_iter /\ \A s \in Statements : count[s] = 1)

C6_Witness ==
    /\ pc = "done"
    /\ t = n_iter
    /\ Len(TheData) = DefaultNData

\* C8: build_toy_dataset leaves the global seed at 0 whatever it was
\* before, so from the construction of ed.MFVI on, through inference.run,
\* the seed in effect is 0 and not the 42 the script set first.
C8_SeedIsZeroAfterBuild ==
    /\ \A g \in [seed : Seeds, draws : 0..MaxDraws], n \in 1..MaxNData :
          build_toy_dataset(n, DefaultNoiseStd, g).rng.seed = 0
    /\ count["data"] >= 1 => rng.seed = 0
    /\ pc \in {"l77", "l78", "running", "done"} =>
          /\ count["set_seed"] = 1
          /\ rng.seed = 0
          /\ rng.seed # ScriptSeed

C8_Witness ==
    /\ pc = "running"
    /\ t = 0
    /\ count["set_seed"] = 1
    /\ inference # None
    /\ rng.seed = 0

=============================================================================
